---- MODULE Spec2Model ----
(***************************************************************************)
(* A model of the CEA Helper, src/app1.py: a Streamlit script that runs    *)
(* from its first line to its last whenever the user changes a widget.     *)
(* The script reads the sidebar widgets, computes the point estimates,     *)
(* reports the threshold verdict, reads the two sensitivity ranges and     *)
(* builds the scenario table (specification Spec).  Its last section       *)
(* derives the cost-effectiveness columns of an uploaded sheet; it reads   *)
(* no variable the sections before it write and is specified on its own    *)
(* (specification SpecBatch).                                              *)
(*                                                                         *)
(* src/app.py is the earlier version of the script.  It has no inflation   *)
(* adjustment: its scenario bounds are four widgets of their own, listed   *)
(* low-low, low-high, high-low, high-high, and its batch section derives   *)
(* each column only if the sheet lacks it and as soon as that column's own *)
(* sources are there.                                                      *)
(*                                                                         *)
(* Numbers.  A Python float is an IEEE 754 binary64 value and is modelled  *)
(* as one: the record [k, s, m, e] with k = "fin" is (-1)^s * m * 2^e,     *)
(* where m is odd (or empty, for the zero of sign s) and has at most 53    *)
(* bits; k = "inf" is the infinity of sign s and k = "nan" is NaN.  Every  *)
(* operation rounds its exact result to the nearest such value, ties to    *)
(* even, as the hardware does; 0.19 is the double nearest to 19/100.  The  *)
(* integers of the model checker have 32 bits, so a mantissa is a natural  *)
(* number written as a sequence of limbs, least significant first, in base *)
(* 2^15.  A Python scalar division by zero does not produce a value: it    *)
(* raises, which is the value ZeroDivisionError.  A script variable that   *)
(* has not been assigned yet holds Unset.                                  *)
(***************************************************************************)
EXTENDS Integers, Sequences, FiniteSets

\* ------------------------------------------------------------------ bounds
\* Costs are 0..MaxCost, beneficiaries 1..MaxN, impacts 0..MaxImpact
\* hundredths, CPI values 1..MaxCPI, thresholds 0..MaxThreshold and the two
\* ranges 0..MaxDelta steps of DeltaStep percent.
MaxCost == 2
MaxN == 2
MaxImpact == 1
MaxCPI == 2
MaxThreshold == 1
MaxDelta == 3
DeltaStep == 50

\* ------------------------------------------------------- program constants
\* The impact widget steps by 1/100; both CPI values are 100 when the
\* inflation adjustment is off.
ImpactStepDen == 100
NeutralCPI == 100

\* --------------------------------------------------------- natural numbers
\* A natural number is the sequence of its limbs in base 2^15, the least
\* significant first and the most significant not 0; <<>> is 0.
Base == 32768
LimbBits == 15

Min(i, j) == IF i < j THEN i ELSE j
Max(i, j) == IF i > j THEN i ELSE j

\* 2^j for j < LimbBits.
Pow2Table ==
    <<1, 2, 4, 8, 16, 32, 64, 128, 256, 512, 1024, 2048, 4096, 8192, 16384>>
Pow2(j) == Pow2Table[j + 1]

Limb(a, i) == IF i <= Len(a) THEN a[i] ELSE 0

\* a without its leading zero limbs.
RECURSIVE NNorm(_)
NNorm(a) ==
    IF Len(a) > 0 /\ a[Len(a)] = 0 THEN NNorm(SubSeq(a, 1, Len(a) - 1)) ELSE a

RECURSIVE NFromInt(_)
NFromInt(i) == IF i = 0 THEN <<>> ELSE <<i % Base>> \o NFromInt(i \div Base)

\* -1, 0 or 1 as a is below, equal to or above b.
RECURSIVE NCmpFrom(_, _, _)
NCmpFrom(a, b, i) ==
    IF i = 0 THEN 0
    ELSE IF a[i] > b[i] THEN 1
    ELSE IF a[i] < b[i] THEN -1
    ELSE NCmpFrom(a, b, i - 1)

NCmp(a, b) ==
    IF Len(a) > Len(b) THEN 1
    ELSE IF Len(a) < Len(b) THEN -1
    ELSE NCmpFrom(a, b, Len(a))

\* a + b, a - b (for a >= b), a * k (for a limb k) and a * b.
RECURSIVE NAddFrom(_, _, _, _)
NAddFrom(a, b, i, c) ==
    IF i > Len(a) /\ i > Len(b)
    THEN IF c = 0 THEN <<>> ELSE <<c>>
    ELSE LET s == Limb(a, i) + Limb(b, i) + c
         IN <<s % Base>> \o NAddFrom(a, b, i + 1, s \div Base)

NAdd(a, b) == NAddFrom(a, b, 1, 0)

RECURSIVE NSubFrom(_, _, _, _)
NSubFrom(a, b, i, c) ==
    IF i > Len(a) THEN <<>>
    ELSE LET s == a[i] - Limb(b, i) - c
         IN IF s < 0 THEN <<s + Base>> \o NSubFrom(a, b, i + 1, 1)
            ELSE <<s>> \o NSubFrom(a, b, i + 1, 0)

NSub(a, b) == NNorm(NSubFrom(a, b, 1, 0))

RECURSIVE NMulSmallFrom(_, _, _, _)
NMulSmallFrom(a, k, i, c) ==
    IF i > Len(a)
    THEN IF c = 0 THEN <<>> ELSE <<c>>
    ELSE LET s == a[i] * k + c
         IN <<s % Base>> \o NMulSmallFrom(a, k, i + 1, s \div Base)

NMulSmall(a, k) == IF k = 0 THEN <<>> ELSE NMulSmallFrom(a, k, 1, 0)

NShiftLimbs(a, n) == IF a = <<>> THEN a ELSE [i \in 1..n |-> 0] \o a

RECURSIVE NMulFrom(_, _, _)
NMulFrom(a, b, i) ==
    IF i > Len(b) THEN <<>>
    ELSE NAdd(NMulSmall(a, b[i]), NShiftLimbs(NMulFrom(a, b, i + 1), 1))

NMul(a, b) == IF Len(a) < Len(b) THEN NMulFrom(b, a, 1) ELSE NMulFrom(a, b, 1)

\* The quotient q and the remainder r of a by the limb d # 0.
RECURSIVE NDivSmallFrom(_, _, _, _)
NDivSmallFrom(a, d, i, r) ==
    IF i = 0 THEN [q |-> <<>>, r |-> r]
    ELSE LET cur == r * Base + a[i]
             rest == NDivSmallFrom(a, d, i - 1, cur % d)
         IN [q |-> rest.q \o <<cur \div d>>, r |-> rest.r]

NDivSmall(a, d) ==
    LET x == NDivSmallFrom(a, d, Len(a), 0)
    IN [q |-> NNorm(x.q), r |-> x.r]

\* a * 2^k, floor(a / 2^k) and bit i of a.
NShl(a, k) == NShiftLimbs(NMulSmall(a, Pow2(k % LimbBits)), k \div LimbBits)

NShr(a, k) ==
    LET n == k \div LimbBits
    IN IF n >= Len(a) THEN <<>>
       ELSE NDivSmall(SubSeq(a, n + 1, Len(a)), Pow2(k % LimbBits)).q

NBit(a, i) == (Limb(a, i \div LimbBits + 1) \div Pow2(i % LimbBits)) % 2

\* Whether the k lowest bits of a are all 0.
NLowZero(a, k) ==
    /\ \A i \in 1..Min(k \div LimbBits, Len(a)) : a[i] = 0
    /\ Limb(a, k \div LimbBits + 1) % Pow2(k % LimbBits) = 0

\* The number of bits of an integer and of a natural number.
RECURSIVE IntBitLen(_)
IntBitLen(x) == IF x = 0 THEN 0 ELSE 1 + IntBitLen(x \div 2)

NBitLen(a) ==
    IF a = <<>> THEN 0 ELSE LimbBits * (Len(a) - 1) + IntBitLen(a[Len(a)])

\* The number of 0 bits below the lowest 1 bit, for a # 0.
RECURSIVE IntTrailingZeros(_)
IntTrailingZeros(x) == IF x % 2 = 1 THEN 0 ELSE 1 + IntTrailingZeros(x \div 2)

RECURSIVE NTrailingZeros(_, _)
NTrailingZeros(a, i) ==
    IF a[i] = 0 THEN LimbBits + NTrailingZeros(a, i + 1)
    ELSE IntTrailingZeros(a[i])

\* Long division by a divisor of two limbs or more whose top limb has all
\* its bits: the estimate qhat of a quotient limb is at most 2 too large.
RECURSIVE NQuotientDigit(_, _, _)
NQuotientDigit(r, b, qhat) ==
    LET p == NMulSmall(b, qhat)
    IN IF NCmp(p, r) > 0 THEN NQuotientDigit(r, b, qhat - 1)
       ELSE [qd |-> qhat, r |-> NSub(r, p)]

RECURSIVE NLongDivFrom(_, _, _, _)
NLongDivFrom(a, b, i, r) ==
    IF i = 0 THEN [q |-> <<>>, r |-> r]
    ELSE LET r1 == IF r = <<>> /\ a[i] = 0 THEN <<>> ELSE <<a[i]>> \o r
             n == Len(b)
             qhat == Min(Base - 1,
                         (Limb(r1, n + 1) * Base + Limb(r1, n)) \div b[n])
             step == IF Len(r1) < n THEN [qd |-> 0, r |-> r1]
                     ELSE NQuotientDigit(r1, b, qhat)
             rest == NLongDivFrom(a, b, i - 1, step.r)
         IN [q |-> rest.q \o <<step.qd>>, r |-> rest.r]

\* floor(a / b) and whether the division is exact, for b # 0.
NDiv(a, b) ==
    IF Len(b) = 1
    THEN LET x == NDivSmall(a, b[1]) IN [q |-> x.q, exact |-> x.r = 0]
    ELSE LET s == LimbBits - IntBitLen(b[Len(b)])
             an == NShl(a, s)
             x == NLongDivFrom(an, NShl(b, s), Len(an), <<>>)
         IN [q |-> NNorm(x.q), exact |-> x.r = <<>>]

\* ------------------------------------------------------ floats (binary64)
\* The finite value (-1)^s * m * 2^e, the zeros, the infinities and NaN.
Fin(s, m, e) == [k |-> "fin", s |-> s, m |-> m, e |-> e]
Special(k, s) == [k |-> k, s |-> s, m |-> <<>>, e |-> 0]
SignedZero(s) == Fin(s, <<>>, 0)
SignedInf(s) == Special("inf", s)
NaN == Special("nan", 0)

\* The finite value m * 2^e with m odd.
Canon(s, m, e) ==
    IF m = <<>> THEN SignedZero(s)
    ELSE LET t == NTrailingZeros(m, 1)
         IN Fin(s, NShr(m, t), e + t)

\* The double nearest to n * 2^e (to a value just above it when inexact
\* holds), ties to even; n must then have more than 54 bits.
ToDouble(s, n, e, inexact) ==
    IF n = <<>> THEN SignedZero(s)
    ELSE LET len == NBitLen(n)
             qe == Max(e + len - 53, -1074)
             drop == qe - e
         IN IF drop <= 0
            THEN IF e + len > 1024 THEN SignedInf(s) ELSE Canon(s, n, e)
            ELSE LET q == NShr(n, drop)
                     half == NBit(n, drop - 1) = 1
                     below == ~NLowZero(n, drop - 1) \/ inexact
                     up == half /\ (below \/ NBit(n, drop) = 1)
                     m == IF up THEN NAdd(q, <<1>>) ELSE q
                 IN IF qe + NBitLen(m) > 1024 THEN SignedInf(s)
                    ELSE Canon(s, m, qe)

\* The double nearest to (n / d) * 2^e, for d # 0.
RatioToDouble(s, n, d, e) ==
    IF n = <<>> THEN SignedZero(s)
    ELSE LET sh == Max(0, NBitLen(d) + 55 - NBitLen(n))
             x == NDiv(NShl(n, sh), d)
         IN ToDouble(s, x.q, e - sh, ~x.exact)

\* The float of the integer i, and the float Python reads from the decimal
\* n/d (the double nearest to it).
Num(i) == Canon(IF i < 0 THEN 1 ELSE 0, NFromInt(IF i < 0 THEN -i ELSE i), 0)
Dec(n, d) ==
    RatioToDouble(IF n < 0 THEN 1 ELSE 0, NFromInt(IF n < 0 THEN -n ELSE n),
                  NFromInt(d), 0)

\* The sign of a product or quotient.
Xor(s, t) == (s + t) % 2

\* IEEE multiplication: inf * 0 is NaN.
FloatMul(a, b) ==
    IF a.k = "nan" \/ b.k = "nan" THEN NaN
    ELSE IF a.k = "inf" \/ b.k = "inf"
    THEN IF (a.k = "fin" /\ a.m = <<>>) \/ (b.k = "fin" /\ b.m = <<>>)
         THEN NaN ELSE SignedInf(Xor(a.s, b.s))
    ELSE ToDouble(Xor(a.s, b.s), NMul(a.m, b.m), a.e + b.e, FALSE)

\* numpy/pandas element-wise division, which is the IEEE one: x/0 is the
\* infinity with the sign of x times that of the zero, 0/0 and inf/inf are
\* NaN.
NpDiv(a, b) ==
    IF a.k = "nan" \/ b.k = "nan" THEN NaN
    ELSE IF a.k = "inf"
    THEN IF b.k = "inf" THEN NaN ELSE SignedInf(Xor(a.s, b.s))
    ELSE IF b.k = "inf" THEN SignedZero(Xor(a.s, b.s))
    ELSE IF b.m = <<>>
    THEN IF a.m = <<>> THEN NaN ELSE SignedInf(Xor(a.s, b.s))
    ELSE RatioToDouble(Xor(a.s, b.s), a.m, b.m, a.e - b.e)

\* -1, 0 or 1 as |a| is below, equal to or above |b|, for finite a and b.
MagCmp(a, b) ==
    IF a.m = <<>> \/ b.m = <<>>
    THEN (IF a.m = <<>> THEN 0 ELSE 1) - (IF b.m = <<>> THEN 0 ELSE 1)
    ELSE LET ta == a.e + NBitLen(a.m)
             tb == b.e + NBitLen(b.m)
             e == Min(a.e, b.e)
         IN IF ta > tb THEN 1
            ELSE IF ta < tb THEN -1
            ELSE NCmp(NShl(a.m, a.e - e), NShl(b.m, b.e - e))

\* IEEE negation, addition and subtraction.
Neg(a) == [a EXCEPT !.s = 1 - a.s]

FloatAdd(a, b) ==
    IF a.k = "nan" \/ b.k = "nan" THEN NaN
    ELSE IF a.k = "inf"
    THEN IF b.k = "inf" /\ b.s # a.s THEN NaN ELSE a
    ELSE IF b.k = "inf" THEN b
    ELSE IF a.m = <<>> /\ b.m = <<>>
    THEN SignedZero(IF a.s = 1 /\ b.s = 1 THEN 1 ELSE 0)
    ELSE IF a.m = <<>> THEN b
    ELSE IF b.m = <<>> THEN a
    ELSE LET e == Min(a.e, b.e)
             x == NShl(a.m, a.e - e)
             y == NShl(b.m, b.e - e)
             c == NCmp(x, y)
         IN IF a.s = b.s THEN ToDouble(a.s, NAdd(x, y), e, FALSE)
            ELSE IF c = 0 THEN SignedZero(0)
            ELSE IF c > 0 THEN ToDouble(a.s, NSub(x, y), e, FALSE)
            ELSE ToDouble(b.s, NSub(y, x), e, FALSE)

FloatSub(a, b) == FloatAdd(a, Neg(b))

\* -1, 0 or 1 as a is below, equal to or above b; neither is NaN.
Cmp(a, b) ==
    LET sa == IF a.k = "fin" /\ a.m = <<>> THEN 0 ELSE 1 - 2 * a.s
        sb == IF b.k = "fin" /\ b.m = <<>> THEN 0 ELSE 1 - 2 * b.s
    IN IF sa # sb THEN (IF sa > sb THEN 1 ELSE -1)
       ELSE IF sa = 0 THEN 0
       ELSE IF a.k = "inf" \/ b.k = "inf"
       THEN sa * ((IF a.k = "inf" THEN 1 ELSE 0)
                     - (IF b.k = "inf" THEN 1 ELSE 0))
       ELSE sa * MagCmp(a, b)

\* a > b, a >= b and a == b on floats; any comparison with NaN is false,
\* and the two zeros are equal.
Gt(a, b) == a.k # "nan" /\ b.k # "nan" /\ Cmp(a, b) > 0
Ge(a, b) == a.k # "nan" /\ b.k # "nan" /\ Cmp(a, b) >= 0
Eq(a, b) == a.k # "nan" /\ b.k # "nan" /\ Cmp(a, b) = 0
Lt(a, b) == Gt(b, a)
Le(a, b) == Ge(b, a)

Zero == SignedZero(0)
One == Num(1)
Hundred == Num(100)
Inf == SignedInf(0)

Unset == Special("unset", 0)
ZeroDivisionError == Special("ZeroDivisionError", 0)

Raised(x) == x = ZeroDivisionError
IsNaN(x) == x.k = "nan"
\* x != float("inf"): true of every value but the positive infinity, NaN and
\* the negative infinity included.
NotInf(x) == ~(x.k = "inf" /\ x.s = 0)

\* float * float, float + float and float - float; a raised operand stays
\* raised.
Mul(a, b) ==
    IF Raised(a) \/ Raised(b) THEN ZeroDivisionError ELSE FloatMul(a, b)

Add(a, b) ==
    IF Raised(a) \/ Raised(b) THEN ZeroDivisionError ELSE FloatAdd(a, b)

Sub(a, b) ==
    IF Raised(a) \/ Raised(b) THEN ZeroDivisionError ELSE FloatSub(a, b)

\* Python scalar division: a zero divisor raises ZeroDivisionError.
PyDiv(a, b) ==
    IF Raised(a) \/ Raised(b) THEN ZeroDivisionError
    ELSE IF b.k = "fin" /\ b.m = <<>> THEN ZeroDivisionError
    ELSE NpDiv(a, b)

RECURSIVE Pow10(_)
Pow10(k) == IF k = 0 THEN 1 ELSE 10 * Pow10(k - 1)

\* Python's round(x, ndigits) of a float: the exact binary value of x is
\* rounded to the nearest multiple of 10^-ndigits, a tie (which only a value
\* with an exact binary representation can be) going to the even one, and
\* the result is the double nearest to that decimal.  An infinity, a NaN,
\* a zero and an integral value are returned as they are.
Round(x, ndigits) ==
    IF Raised(x) THEN ZeroDivisionError
    ELSE IF x.k # "fin" \/ x.m = <<>> \/ x.e >= 0 THEN x
    ELSE LET p == Pow10(ndigits)
             t == NMul(x.m, NFromInt(p))
             drop == -x.e
             q == NShr(t, drop)
             half == NBit(t, drop - 1) = 1
             up == half /\ (~NLowZero(t, drop - 1) \/ NBit(t, drop) = 1)
             r == IF up THEN NAdd(q, <<1>>) ELSE q
         IN RatioToDouble(x.s, r, NFromInt(p), 0)

\* ------------------------------------------------------------------ state
VARIABLES
    pc,                     \* the section of the script that runs next
    exception,              \* the uncaught exception that ended the run
    use_inflation, total_cost_nominal, cpi_cost_year, cpi_target_year,
    n_beneficiaries, impact, threshold,
    cpi_ratio, total_cost_real,
    cost_per_child_nominal, cost_per_child_real,
    ce_per_100_nominal, ce_per_100_real,
    cost_per_sd_nominal, cost_per_sd_real,
    threshold_message,      \* "success", "warning" or "info"
    cost_delta_pct, impact_delta_pct,
    cost_low, cost_high, impact_low, impact_high,
    scenarios,              \* the list of (label, c, imp)
    rows,                   \* the rows of df_sensitivity
    batch_pc,               \* "upload", "analysis" or "shown"
    uploaded,               \* the file the uploader holds, and its sheet
    use_batch_inflation,
    df_up,                  \* the table read from the file, column by column
    cost_col_name,
    batch_message           \* "none", "error" or "computed"

inputs == <<use_inflation, total_cost_nominal, cpi_cost_year, cpi_target_year,
            n_beneficiaries, impact, threshold>>
point == <<cpi_ratio, total_cost_real, cost_per_child_nominal,
           cost_per_child_real, ce_per_100_nominal, ce_per_100_real,
           cost_per_sd_nominal, cost_per_sd_real>>
ranges == <<cost_delta_pct, impact_delta_pct>>
sensitivity == <<cost_low, cost_high, impact_low, impact_high, scenarios, rows>>
script == <<pc, exception, inputs, point, threshold_message, ranges, sensitivity>>
batch == <<batch_pc, uploaded, use_batch_inflation, df_up, cost_col_name,
           batch_message>>

\* --------------------------------------------------- the sidebar's widgets
TotalCostValues == {Num(c) : c \in 0..MaxCost}
BeneficiaryValues == 1..MaxN
ImpactValues == {Dec(k, ImpactStepDen) : k \in 0..MaxImpact}
ThresholdValues == {Num(t) : t \in 0..MaxThreshold}
CPIValues == {Num(c) : c \in 1..MaxCPI}
DeltaValues == {Num(k * DeltaStep) : k \in 0..MaxDelta}

\* ------------------------------------------------------ core calculations
CpiRatio(cpi_t, cpi_c) == PyDiv(cpi_t, cpi_c)

TotalCostReal(nominal, ratio) == Mul(nominal, ratio)

CostPerChild(total, n) == PyDiv(total, Num(n))

CePer100(imp, cost_per_child) ==
    IF Gt(cost_per_child, Zero)
    THEN PyDiv(Mul(imp, Hundred), cost_per_child)
    ELSE Zero

\* A variant without the zero-impact guard.
CostPerSdUnguarded(cost_per_child, imp) == PyDiv(cost_per_child, imp)

CostPerSd(cost_per_child, imp) ==
    IF Gt(imp, Zero) THEN PyDiv(cost_per_child, imp) ELSE Inf

\* A variant that needs the threshold to be exceeded.
ThresholdMessageStrict(thr, ce_real) ==
    IF Gt(thr, Zero)
    THEN IF Gt(ce_real, thr) THEN "success" ELSE "warning"
    ELSE "info"

ThresholdMessage(thr, ce_real) ==
    IF Gt(thr, Zero)
    THEN IF Ge(ce_real, thr) THEN "success" ELSE "warning"
    ELSE "info"

\* ---------------------------------------------------- sensitivity analysis
CostLow(center, pct) == Mul(center, Sub(One, PyDiv(pct, Hundred)))
CostHigh(center, pct) == Mul(center, Add(One, PyDiv(pct, Hundred)))
ImpactLow(center, pct) == Mul(center, Sub(One, PyDiv(pct, Hundred)))
ImpactHigh(center, pct) == Mul(center, Add(One, PyDiv(pct, Hundred)))

\* A variant in the order of the cost and impact bounds (low-low, low-high,
\* high-low, high-high) under the same four labels.
ScenariosByBounds(c_low, c_high, i_low, i_high) ==
    << [label |-> "Best case (Low cost + High impact)", c |-> c_low, imp |-> i_low],
       [label |-> "Worst case (High cost + Low impact)", c |-> c_low, imp |-> i_high],
       [label |-> "Low cost + Low impact", c |-> c_high, imp |-> i_low],
       [label |-> "High cost + High impact", c |-> c_high, imp |-> i_high] >>

Scenarios(c_low, c_high, i_low, i_high) ==
    << [label |-> "Best case (Low cost + High impact)", c |-> c_low, imp |-> i_high],
       [label |-> "Worst case (High cost + Low impact)", c |-> c_high, imp |-> i_low],
       [label |-> "Low cost + Low impact", c |-> c_low, imp |-> i_low],
       [label |-> "High cost + High impact", c |-> c_high, imp |-> i_high] >>

\* A variant without the zero-cost guard.
ScenarioCeUnguarded(imp, c) == PyDiv(Mul(imp, Hundred), c)

ScenarioCe(imp, c) ==
    IF Gt(c, Zero) THEN PyDiv(Mul(imp, Hundred), c) ELSE Zero

ScenarioRow(s) ==
    [Scenario |-> s.label,
     Cost_per_child_REAL_USD |-> Round(s.c, 2),
     Impact_per_child_SD |-> Round(s.imp, 3),
     SD_per_100USD_REAL |-> Round(ScenarioCe(s.imp, s.c), 2)]

ScenarioRows(ss) == [i \in 1..Len(ss) |-> ScenarioRow(ss[i])]

\* ------------------------------------------------------------- the tables
\* A table (a pandas DataFrame) is a function from the names of its columns
\* to the columns, each the sequence of the cells of its rows.  Reading a
\* column the table lacks (a KeyError in pandas) is the application of the
\* function outside its domain, which has no value.
SourceColumns ==
    {"Total_Cost_USD_per_year", "Number_of_children", "Impact_per_child_SD"}
InflationColumns ==
    {"Cost_Year", "CPI_Cost_Year", "Target_Price_Year", "CPI_Target_Year"}
DerivedColumns == {"Cost_per_child_USD", "SD_per_100USD", "Cost_per_1SD_USD"}
Columns ==
    SourceColumns \cup InflationColumns \cup DerivedColumns
        \cup {"Total_Cost_Real_USD_per_year"}

EmptyTable == [c \in {} |-> <<>>]

\* df[a] * df[b], df[a] / df[b] and df[a] * 100, cell by cell.
ColMul(a, b) == [i \in 1..Len(a) |-> Mul(a[i], b[i])]
ColDiv(a, b) == [i \in 1..Len(a) |-> NpDiv(a[i], b[i])]
ColTimes(a, k) == [i \in 1..Len(a) |-> Mul(a[i], k)]

\* df[c] = col: a new column, or the replacement of the column named c.
SetColumn(df, c, col) ==
    [k \in DOMAIN df \cup {c} |-> IF k = c THEN col ELSE df[k]]

\* Lines 232-238: the name of the column the costs are taken from.
UsesRealCost(df, flag) ==
    /\ flag
    /\ (InflationColumns \cup {"Total_Cost_USD_per_year"}) \subseteq DOMAIN df

\* A variant that computes the real cost but keeps the nominal basis.
CostColNameNominal(df, flag) == "Total_Cost_USD_per_year"

CostColName(df, flag) ==
    IF UsesRealCost(df, flag)
    THEN "Total_Cost_Real_USD_per_year"
    ELSE "Total_Cost_USD_per_year"

\* Lines 233-235.
WithRealCost(df) ==
    SetColumn(df, "Total_Cost_Real_USD_per_year",
              ColMul(df["Total_Cost_USD_per_year"],
                     ColDiv(df["CPI_Target_Year"], df["CPI_Cost_Year"])))

\* Lines 241-244.
CanDerive(df, cost_col) ==
    {"Number_of_children", "Impact_per_child_SD", cost_col} \subseteq DOMAIN df

\* A variant that derives each column as soon as its own sources are there.
DeriveCEPerColumn(df, cost_col) ==
    LET d1 == IF {cost_col, "Number_of_children"} \subseteq DOMAIN df
              THEN SetColumn(df, "Cost_per_child_USD",
                       ColDiv(df[cost_col], df["Number_of_children"]))
              ELSE df
        ok == {"Impact_per_child_SD", "Cost_per_child_USD"} \subseteq DOMAIN d1
        d2 == IF ok
              THEN SetColumn(d1, "SD_per_100USD",
                       ColDiv(ColTimes(d1["Impact_per_child_SD"], Hundred),
                              d1["Cost_per_child_USD"]))
              ELSE d1
        d3 == IF ok
              THEN SetColumn(d2, "Cost_per_1SD_USD",
                       ColDiv(d2["Cost_per_child_USD"],
                              d2["Impact_per_child_SD"]))
              ELSE d2
    IN d3

DeriveCE(df, cost_col) ==
    IF CanDerive(df, cost_col)
    THEN LET d1 == SetColumn(df, "Cost_per_child_USD",
                       ColDiv(df[cost_col], df["Number_of_children"]))
             d2 == SetColumn(d1, "SD_per_100USD",
                       ColDiv(ColTimes(d1["Impact_per_child_SD"], Hundred),
                              d1["Cost_per_child_USD"]))
             d3 == SetColumn(d2, "Cost_per_1SD_USD",
                       ColDiv(d2["Cost_per_child_USD"],
                              d2["Impact_per_child_SD"]))
         IN d3
    ELSE df

\* Lines 231-244: the table the batch section shows and offers for download.
BatchApply(df, flag) ==
    DeriveCE(IF UsesRealCost(df, flag) THEN WithRealCost(df) ELSE df,
             CostColName(df, flag))

\* ------------------------------------------------------ the uploaded sheets
\* A sheet is not validated: next to the values the scalar widgets take, the
\* cells of the first row hold a beneficiary count of 0 and a negative
\* impact.  A column that exists on input among the derived ones holds
\* Preexisting, a value no derivation produces from these cells.
Preexisting == Num(-1)
SheetChildrenValues == {Num(n) : n \in 0..MaxN}
SheetImpactValues == {Dec(k, ImpactStepDen) : k \in -1..MaxImpact}

\* The second row of every sheet: the documented example intervention.
ExampleRow ==
    [c \in Columns |->
        CASE c = "Total_Cost_USD_per_year" -> Num(100000)
          [] c = "Number_of_children" -> Num(10000)
          [] c = "Impact_per_child_SD" -> Dec(20, ImpactStepDen)
          [] c = "Cost_Year" -> Num(2018)
          [] c = "CPI_Cost_Year" -> Num(100)
          [] c = "Target_Price_Year" -> Num(2024)
          [] c = "CPI_Target_Year" -> Num(140)
          [] OTHER -> Preexisting]

\* The values a cell of column c takes in the first row of a sheet with the
\* columns cols (one value, never shown, for a column the sheet lacks).
CellValues(c, cols) ==
    IF c \notin cols THEN {Preexisting}
    ELSE CASE c = "Total_Cost_USD_per_year" -> TotalCostValues
           [] c = "Number_of_children" -> SheetChildrenValues
           [] c = "Impact_per_child_SD" -> SheetImpactValues
           [] c \in {"CPI_Cost_Year", "CPI_Target_Year"} -> CPIValues
           [] OTHER -> {ExampleRow[c]}

FirstRow(total_cost, n, imp, cpi_cost, cpi_target) ==
    [c \in Columns |->
        CASE c = "Total_Cost_USD_per_year" -> total_cost
          [] c = "Number_of_children" -> n
          [] c = "Impact_per_child_SD" -> imp
          [] c = "CPI_Cost_Year" -> cpi_cost
          [] c = "CPI_Target_Year" -> cpi_target
          [] OTHER -> ExampleRow[c]]

\* The sheet with the columns cols: the first row, then the example row.
Sheet(cols, first) == [c \in cols |-> <<first[c], ExampleRow[c]>>]

NRows(df) == IF DOMAIN df = {} THEN 0
             ELSE Len(df[CHOOSE c \in DOMAIN df : TRUE])

\* ------------------------------------------------------------- the script
Fresh ==
    /\ pc = "sidebar"
    /\ exception = "none"
    /\ use_inflation = FALSE
    /\ total_cost_nominal = Unset /\ cpi_cost_year = Unset
    /\ cpi_target_year = Unset /\ n_beneficiaries = 1
    /\ impact = Unset /\ threshold = Unset
    /\ cpi_ratio = Unset /\ total_cost_real = Unset
    /\ cost_per_child_nominal = Unset /\ cost_per_child_real = Unset
    /\ ce_per_100_nominal = Unset /\ ce_per_100_real = Unset
    /\ cost_per_sd_nominal = Unset /\ cost_per_sd_real = Unset
    /\ threshold_message = "unset"
    /\ cost_delta_pct = Unset /\ impact_delta_pct = Unset
    /\ cost_low = Unset /\ cost_high = Unset
    /\ impact_low = Unset /\ impact_high = Unset
    /\ scenarios = <<>> /\ rows = <<>>

NoUpload ==
    /\ batch_pc = "upload"
    /\ uploaded = [file |-> "none", sheet |-> EmptyTable]
    /\ use_batch_inflation = FALSE
    /\ df_up = EmptyTable
    /\ cost_col_name = ""
    /\ batch_message = "none"

Init == Fresh /\ NoUpload

\* Lines 32-54: the sidebar widgets return what the user entered, each within
\* the range its widget enforces.
SidebarInputs ==
    /\ pc = "sidebar"
    /\ use_inflation' \in BOOLEAN
    /\ total_cost_nominal' \in TotalCostValues
    /\ IF use_inflation'
       THEN /\ cpi_cost_year' \in CPIValues
            /\ cpi_target_year' \in CPIValues
       ELSE /\ cpi_cost_year' = Num(NeutralCPI)
            /\ cpi_target_year' = Num(NeutralCPI)
    /\ n_beneficiaries' \in BeneficiaryValues
    /\ impact' \in ImpactValues
    /\ threshold' \in ThresholdValues
    /\ pc' = "core"
    /\ UNCHANGED <<exception, point, threshold_message, ranges, sensitivity>>
    /\ UNCHANGED batch

\* Lines 61-71.  (Each value is computed once and bound to a name by a
\* quantifier over the set that holds it alone.)
CoreCalculations ==
    /\ pc = "core"
    /\ \E ratio \in {CpiRatio(cpi_target_year, cpi_cost_year)} :
       \E real \in {TotalCostReal(total_cost_nominal, ratio)} :
       \E cpc_nominal \in {CostPerChild(total_cost_nominal, n_beneficiaries)},
          cpc_real \in {CostPerChild(real, n_beneficiaries)} :
       \E ce_nominal \in {CePer100(impact, cpc_nominal)},
          ce_real \in {CePer100(impact, cpc_real)},
          sd_nominal \in {CostPerSd(cpc_nominal, impact)},
          sd_real \in {CostPerSd(cpc_real, impact)} :
          IF \E v \in {ratio, real, cpc_nominal, cpc_real, ce_nominal,
                       ce_real, sd_nominal, sd_real} : Raised(v)
          THEN /\ exception' = "ZeroDivisionError"
               /\ pc' = "crashed"
               /\ UNCHANGED point
          ELSE /\ cpi_ratio' = ratio
               /\ total_cost_real' = real
               /\ cost_per_child_nominal' = cpc_nominal
               /\ cost_per_child_real' = cpc_real
               /\ ce_per_100_nominal' = ce_nominal
               /\ ce_per_100_real' = ce_real
               /\ cost_per_sd_nominal' = sd_nominal
               /\ cost_per_sd_real' = sd_real
               /\ pc' = "threshold"
               /\ UNCHANGED exception
    /\ UNCHANGED <<inputs, threshold_message, ranges, sensitivity>>
    /\ UNCHANGED batch

\* Lines 91-103.
ThresholdCheck ==
    /\ pc = "threshold"
    /\ threshold_message' = ThresholdMessage(threshold, ce_per_100_real)
    /\ pc' = "ranges"
    /\ UNCHANGED <<exception, inputs, point, ranges, sensitivity>>
    /\ UNCHANGED batch

\* Lines 128-130: the two range widgets, each with min_value = 0.0.
SensitivityRanges ==
    /\ pc = "ranges"
    /\ cost_delta_pct' \in DeltaValues
    /\ impact_delta_pct' \in DeltaValues
    /\ pc' = "scenarios"
    /\ UNCHANGED <<exception, inputs, point, threshold_message, sensitivity>>
    /\ UNCHANGED batch

\* Lines 132-154: the four bounds, the scenario list, then the loop that
\* builds the rows of df_sensitivity.
SensitivityAnalysis ==
    /\ pc = "scenarios"
    /\ \E c_low \in {CostLow(cost_per_child_real, cost_delta_pct)},
          c_high \in {CostHigh(cost_per_child_real, cost_delta_pct)},
          i_low \in {ImpactLow(impact, impact_delta_pct)},
          i_high \in {ImpactHigh(impact, impact_delta_pct)} :
       \E ss \in {Scenarios(c_low, c_high, i_low, i_high)} :
       \E rr \in {ScenarioRows(ss)} :
          /\ cost_low' = c_low
          /\ cost_high' = c_high
          /\ impact_low' = i_low
          /\ impact_high' = i_high
          /\ scenarios' = ss
          /\ IF \E i \in 1..Len(rr) : Raised(rr[i].SD_per_100USD_REAL)
             THEN /\ exception' = "ZeroDivisionError"
                  /\ pc' = "crashed"
                  /\ rows' = <<>>
             ELSE /\ rows' = rr
                  /\ pc' = "done"
                  /\ UNCHANGED exception
    /\ UNCHANGED <<inputs, point, threshold_message, ranges>>
    /\ UNCHANGED batch

\* Streamlit runs the script again, from its first line and with fresh
\* variables, whenever the user changes a widget.
Rerun ==
    /\ pc \in {"done", "crashed"}
    /\ pc' = "sidebar"
    /\ exception' = "none"
    /\ use_inflation' = FALSE
    /\ total_cost_nominal' = Unset /\ cpi_cost_year' = Unset
    /\ cpi_target_year' = Unset /\ n_beneficiaries' = 1
    /\ impact' = Unset /\ threshold' = Unset
    /\ cpi_ratio' = Unset /\ total_cost_real' = Unset
    /\ cost_per_child_nominal' = Unset /\ cost_per_child_real' = Unset
    /\ ce_per_100_nominal' = Unset /\ ce_per_100_real' = Unset
    /\ cost_per_sd_nominal' = Unset /\ cost_per_sd_real' = Unset
    /\ threshold_message' = "unset"
    /\ cost_delta_pct' = Unset /\ impact_delta_pct' = Unset
    /\ cost_low' = Unset /\ cost_high' = Unset
    /\ impact_low' = Unset /\ impact_high' = Unset
    /\ scenarios' = <<>> /\ rows' = <<>>
    /\ UNCHANGED batch

Next ==
    \/ SidebarInputs
    \/ CoreCalculations
    \/ ThresholdCheck
    \/ SensitivityRanges
    \/ SensitivityAnalysis
    \/ Rerun

\* ------------------------------------------------------- the batch section
\* Lines 218-223: the user picks a file and sets the checkbox.
UploadFile ==
    /\ batch_pc = "upload"
    /\ \/ uploaded' = [file |-> "unreadable", sheet |-> EmptyTable]
       \/ \E cols \in (SUBSET Columns) \ {{}} :
            \E total_cost \in CellValues("Total_Cost_USD_per_year", cols),
               n \in CellValues("Number_of_children", cols),
               imp \in CellValues("Impact_per_child_SD", cols),
               cpi_cost \in CellValues("CPI_Cost_Year", cols),
               cpi_target \in CellValues("CPI_Target_Year", cols) :
               uploaded' =
                   [file |-> "xlsx",
                    sheet |-> Sheet(cols,
                                    FirstRow(total_cost, n, imp, cpi_cost,
                                             cpi_target))]
    /\ use_batch_inflation' \in BOOLEAN
    /\ batch_pc' = "analysis"
    /\ UNCHANGED <<df_up, cost_col_name, batch_message, script>>

\* Lines 225-254.
BatchAnalysis ==
    /\ batch_pc = "analysis"
    /\ IF uploaded.file = "unreadable"
       THEN /\ batch_message' = "error"
            /\ UNCHANGED <<df_up, cost_col_name>>
       ELSE /\ cost_col_name' = CostColName(uploaded.sheet, use_batch_inflation)
            /\ df_up' = BatchApply(uploaded.sheet, use_batch_inflation)
            /\ batch_message' = "computed"
    /\ batch_pc' = "shown"
    /\ UNCHANGED <<uploaded, use_batch_inflation, script>>

\* The user removes the file: the next run of the script skips the section.
RemoveFile ==
    /\ batch_pc = "shown"
    /\ batch_pc' = "upload"
    /\ uploaded' = [file |-> "none", sheet |-> EmptyTable]
    /\ use_batch_inflation' = FALSE
    /\ df_up' = EmptyTable
    /\ cost_col_name' = ""
    /\ batch_message' = "none"
    /\ UNCHANGED script

BatchNext ==
    \/ UploadFile
    \/ BatchAnalysis
    \/ RemoveFile

vars == <<script, batch>>

Spec == Init /\ [][Next]_vars

SpecBatch == Init /\ [][BatchNext]_vars

\* ================================================================ properties
PointDone == pc \in {"threshold", "ranges", "scenarios", "done"}
VerdictDone == pc \in {"ranges", "scenarios", "done"}
ScenariosDone == pc = "done"

\* What the inputs of the run give by the stated formulas: the real cost is
\* nominal * (cpi_target / cpi_cost), the cost per beneficiary is cost / n,
\* and the SD per 100 is (imp * 100) / c with the zero-cost guard.
RealCostPerChild ==
    NpDiv(FloatMul(total_cost_nominal, NpDiv(cpi_target_year, cpi_cost_year)),
          Num(n_beneficiaries))
NominalCostPerChild == NpDiv(total_cost_nominal, Num(n_beneficiaries))
GuardedSdPer100(imp, c) ==
    IF Le(c, Zero) THEN Zero ELSE NpDiv(FloatMul(imp, Hundred), c)

\* C4: the threshold verdict is tri-state and decided on the real SD per 100:
\* "info" (unset) exactly when threshold = 0; otherwise "success" (meets)
\* exactly when sd_per_100_real >= threshold and "warning" (fails) exactly
\* when sd_per_100_real < threshold.
C4_ThresholdVerdict ==
    VerdictDone =>
        LET real == GuardedSdPer100(impact, RealCostPerChild)
        IN /\ threshold_message \in {"info", "success", "warning"}
           /\ (threshold_message = "info") <=> Eq(threshold, Zero)
           /\ (threshold_message = "success")
                  <=> (~Eq(threshold, Zero) /\ Ge(real, threshold))
           /\ (threshold_message = "warning")
                  <=> (~Eq(threshold, Zero) /\ Lt(real, threshold))

\* C4 witness: a run with inflation in which the real SD per 100 equals a
\* positive threshold, differs from the nominal one, and the verdict is meets.
C4_Witness ==
    /\ VerdictDone
    /\ use_inflation
    /\ Gt(threshold, Zero)
    /\ Eq(ce_per_100_real, threshold)
    /\ ~Eq(ce_per_100_nominal, ce_per_100_real)
    /\ threshold_message = "success"

\* C5: with n >= 1 and impact = 0 both cost_per_1sd values are the infinite
\* sentinel and no division by zero is performed; with impact > 0 they are
\* cost_per_beneficiary_x / impact and never the sentinel.
C5_CostPerSdSentinel ==
    /\ exception = "none"
    /\ PointDone =>
        /\ Eq(impact, Zero) =>
              cost_per_sd_nominal = Inf /\ cost_per_sd_real = Inf
        /\ Gt(impact, Zero) =>
              /\ cost_per_sd_nominal = NpDiv(NominalCostPerChild, impact)
              /\ cost_per_sd_real = NpDiv(RealCostPerChild, impact)
              /\ NotInf(cost_per_sd_nominal)
              /\ NotInf(cost_per_sd_real)

\* C5 witness: a completed point calculation with zero impact and a positive
\* cost, both ratios the sentinel.
C5_Witness ==
    /\ PointDone
    /\ Eq(impact, Zero)
    /\ Gt(cost_per_child_real, Zero)
    /\ cost_per_sd_nominal = Inf
    /\ cost_per_sd_real = Inf

\* C6: sd_per_100 has one zero-cost guard everywhere: the point values
\* (nominal and real) are 0.0 when the cost per beneficiary is 0, each
\* scenario's value is 0.0 when its cost is <= 0, otherwise the value is
\* (impact * 100) / cost (in the scenario table, rounded to two places); no
\* division by zero occurs.
C6_ZeroCostGuard ==
    /\ exception = "none"
    /\ pc # "crashed"
    /\ PointDone =>
        /\ ce_per_100_nominal = GuardedSdPer100(impact, NominalCostPerChild)
        /\ ce_per_100_real = GuardedSdPer100(impact, RealCostPerChild)
    /\ ScenariosDone =>
        /\ Len(rows) = 4
        /\ \A i \in 1..Len(rows) :
              rows[i].SD_per_100USD_REAL
                  = Round(GuardedSdPer100(scenarios[i].imp, scenarios[i].c), 2)

\* C6 witness: a completed run with zero cost and positive impact, where the
\* point value and every scenario's value are 0.0.
C6_Witness ==
    /\ ScenariosDone
    /\ Eq(total_cost_nominal, Zero)
    /\ Gt(impact, Zero)
    /\ Gt(impact_low, Zero)
    /\ ce_per_100_nominal = Zero
    /\ ce_per_100_real = Zero
    /\ \A i \in 1..4 : rows[i].SD_per_100USD_REAL = Zero

\* The bounds the ranges give: center * (1 -+ pct / 100).
LowOf(center, pct) == FloatMul(center, FloatSub(One, NpDiv(pct, Hundred)))
HighOf(center, pct) == FloatMul(center, FloatAdd(One, NpDiv(pct, Hundred)))

\* C7: the sensitivity step produces exactly four scenarios in the order
\* Best (low cost, high impact), Worst (high cost, low impact), Low-Low,
\* High-High, each carrying the (cost, impact) pair its label names.
C7_ScenarioOrder ==
    ScenariosDone =>
        LET c_lo == LowOf(RealCostPerChild, cost_delta_pct)
            c_hi == HighOf(RealCostPerChild, cost_delta_pct)
            i_lo == LowOf(impact, impact_delta_pct)
            i_hi == HighOf(impact, impact_delta_pct)
            expected ==
                << <<"Best case (Low cost + High impact)", c_lo, i_hi>>,
                   <<"Worst case (High cost + Low impact)", c_hi, i_lo>>,
                   <<"Low cost + Low impact", c_lo, i_lo>>,
                   <<"High cost + High impact", c_hi, i_hi>> >>
        IN /\ Len(scenarios) = 4
           /\ Len(rows) = 4
           /\ \A i \in 1..4 :
                 /\ scenarios[i].label = expected[i][1]
                 /\ scenarios[i].c = expected[i][2]
                 /\ scenarios[i].imp = expected[i][3]
                 /\ rows[i].Scenario = expected[i][1]
                 /\ rows[i].Cost_per_child_REAL_USD = Round(expected[i][2], 2)
                 /\ rows[i].Impact_per_child_SD = Round(expected[i][3], 3)

\* C7 witness: a completed run whose low and high bounds differ for the cost
\* and for the impact, so that the four pairs are all different.
C7_Witness ==
    /\ ScenariosDone
    /\ Len(rows) = 4
    /\ Lt(Zero, cost_low) /\ Lt(cost_low, cost_high)
    /\ Lt(Zero, impact_low) /\ Lt(impact_low, impact_high)

\* C8: for every center cost >= 0, center impact >= 0 and non-negative
\* ranges (including those above 100) the low cost and low impact are >= 0,
\* and no scenario has a negative cost, impact or sd_per_100.
C8_NoNegativeScenario ==
    ScenariosDone =>
        /\ Ge(cost_low, Zero)
        /\ Ge(impact_low, Zero)
        /\ \A i \in 1..Len(scenarios) :
              /\ Ge(scenarios[i].c, Zero)
              /\ Ge(scenarios[i].imp, Zero)
        /\ \A i \in 1..Len(rows) :
              /\ Ge(rows[i].Cost_per_child_REAL_USD, Zero)
              /\ Ge(rows[i].Impact_per_child_SD, Zero)
              /\ Ge(rows[i].SD_per_100USD_REAL, Zero)

\* C10: the Best case scenario's sd_per_100 is >= that of each other
\* scenario and the Worst case scenario's is <= that of each other one.
C10_BestAndWorst ==
    ScenariosDone =>
        \A i \in 1..Len(rows) :
            /\ Ge(rows[1].SD_per_100USD_REAL, rows[i].SD_per_100USD_REAL)
            /\ Le(rows[2].SD_per_100USD_REAL, rows[i].SD_per_100USD_REAL)

\* ------------------------------------------------------- the batch section
BatchShown == batch_pc = "shown" /\ uploaded.file = "xlsx"
Sheet0 == uploaded.sheet
RealBasis ==
    /\ use_batch_inflation
    /\ (InflationColumns \cup {"Total_Cost_USD_per_year"}) \subseteq DOMAIN Sheet0
\* The three source columns the derivation needs are there: the beneficiary
\* count, the impact and the chosen cost basis.
SourcesPresent ==
    /\ {"Number_of_children", "Impact_per_child_SD"} \subseteq DOMAIN Sheet0
    /\ RealBasis \/ "Total_Cost_USD_per_year" \in DOMAIN Sheet0

\* C1: whenever the batch applier produces the derived columns, a row whose
\* cost per beneficiary is 0 gets SD_per_100 = 0.0 and a row whose impact is
\* 0 gets Cost_per_1SD equal to the infinite sentinel.
C1_BatchGuards ==
    (BatchShown /\ SourcesPresent) =>
        \A i \in 1..NRows(df_up) :
            /\ Eq(df_up["Cost_per_child_USD"][i], Zero)
                   => Eq(df_up["SD_per_100USD"][i], Zero)
            /\ Eq(df_up["Impact_per_child_SD"][i], Zero)
                   => df_up["Cost_per_1SD_USD"][i] = Inf

\* C2: a derived column that exists in the uploaded table keeps its input
\* values in every row, for either value of the inflation checkbox.
C2_KeepsPreexisting ==
    BatchShown =>
        \A c \in DerivedColumns \cap DOMAIN Sheet0 : df_up[c] = Sheet0[c]

\* C3: for a table with none of the derived columns on input, after the call
\* all three derived columns are present exactly when the chosen cost-basis
\* column, the beneficiary count and the impact are all present, and
\* otherwise none of them is; a missing source column never raises.
C3_AllOrNothing ==
    /\ batch_pc = "shown" => batch_message \in {"computed", "error"}
    /\ (BatchShown /\ DerivedColumns \cap DOMAIN Sheet0 = {}) =>
        /\ batch_message = "computed"
        /\ SourcesPresent => DerivedColumns \subseteq DOMAIN df_up
        /\ ~SourcesPresent => DerivedColumns \cap DOMAIN df_up = {}

\* C3 witness: a table with the cost and the beneficiary count but no impact
\* column and no derived column: nothing is derived.
C3_Witness ==
    /\ BatchShown
    /\ DerivedColumns \cap DOMAIN Sheet0 = {}
    /\ {"Total_Cost_USD_per_year", "Number_of_children"} \subseteq DOMAIN Sheet0
    /\ "Impact_per_child_SD" \notin DOMAIN Sheet0
    /\ batch_message = "computed"
    /\ DerivedColumns \cap DOMAIN df_up = {}

\* C9: the cost basis is chosen table-wide.  With the checkbox set and the
\* four inflation columns and the nominal cost all present, the real cost is
\* nominal * (CPI_Target_Year / CPI_Cost_Year) in every row and is the cost
\* of every derived column; in every other case no real-cost column is added
\* and the nominal cost is the basis.
C9_CostBasis ==
    BatchShown =>
        LET real == "Total_Cost_Real_USD_per_year"
            nominal == "Total_Cost_USD_per_year"
            basis == IF RealBasis THEN real ELSE nominal
        IN /\ cost_col_name = basis
           /\ IF RealBasis
              THEN /\ real \in DOMAIN df_up
                   /\ \A i \in 1..NRows(df_up) :
                         df_up[real][i]
                             = FloatMul(Sheet0[nominal][i],
                                        NpDiv(Sheet0["CPI_Target_Year"][i],
                                              Sheet0["CPI_Cost_Year"][i]))
              ELSE /\ real \in DOMAIN df_up <=> real \in DOMAIN Sheet0
                   /\ real \in DOMAIN Sheet0 => df_up[real] = Sheet0[real]
           /\ SourcesPresent =>
                 \A i \in 1..NRows(df_up) :
                    LET cost == df_up[basis][i]
                        cpc == NpDiv(cost, Sheet0["Number_of_children"][i])
                        imp == Sheet0["Impact_per_child_SD"][i]
                    IN /\ df_up["Cost_per_child_USD"][i] = cpc
                       /\ df_up["SD_per_100USD"][i]
                              = NpDiv(FloatMul(imp, Hundred), cpc)
                       /\ df_up["Cost_per_1SD_USD"][i] = NpDiv(cpc, imp)

\* C9 witness: a two-row table with every source and inflation column, the
\* checkbox set and different CPI values: the real cost differs from the
\* nominal one and the derived columns are there.
C9_Witness ==
    /\ BatchShown
    /\ RealBasis
    /\ SourcesPresent
    /\ NRows(df_up) = 2
    /\ "Total_Cost_Real_USD_per_year" \notin DOMAIN Sheet0
    /\ \A i \in 1..2 :
          /\ Gt(df_up["Total_Cost_Real_USD_per_year"][i], Zero)
          /\ ~Eq(df_up["Total_Cost_Real_USD_per_year"][i],
                 Sheet0["Total_Cost_USD_per_year"][i])
    /\ DerivedColumns \subseteq DOMAIN df_up

====
